---- MODULE Spec2Model ----
(***************************************************************************)
(* Model of puppeteer.py: extraction of the interactive UI elements from a *)
(* uiautomator hierarchy dump (get_ui_elements and its helpers), the       *)
(* annotation renderer (annotated_screenshot) and the two tool handlers    *)
(* that use them (take_screenshot, get_ui_elements_info), with the grid    *)
(* overlay of take_screenshot. Spec is the server handling tool calls;     *)
(* RaceSpec adds a device whose UI changes during a call; GridSpec,        *)
(* BoxSpec and RenderSpec apply single functions to ranges of inputs.      *)
(*                                                                         *)
(* Representation of values                                                *)
(*   - an optional value (Python None or a value) is a sequence of length  *)
(*     0 or 1: None is <<>>, the string "OK" is <<"OK">>;                  *)
(*   - a class name is the sequence of its dot-free pieces and its dots,   *)
(*     "android.widget.Button" is <<"android",".","widget",".","Button">>; *)
(*   - a bounds string is the sequence of its lexical pieces: brackets,    *)
(*     commas, maximal digit runs (with their value) and other characters; *)
(*   - the element tree is the sequence of its <node> elements in document *)
(*     order, each with its nesting depth under the root.                  *)
(***************************************************************************)
EXTENDS Integers, Sequences, FiniteSets, TLC

\* ------------------------------------------------------------------------
\* Values
\* ------------------------------------------------------------------------

None == <<>>

Some(v) == <<v>>

\* Python truthiness of an optional string: None and "" are falsy.
Truthy(o) == o # None /\ o[1] # ""

\* Python `a or b`.
PyOr(a, b) == IF Truthy(a) THEN a ELSE b

Max(a, b) == IF a >= b THEN a ELSE b

Min(a, b) == IF a <= b THEN a ELSE b

\* Lexical pieces of a bounds string.
LB == [t |-> "[", v |-> 0]

RB == [t |-> "]", v |-> 0]

CM == [t |-> ",", v |-> 0]

Num(n) == [t |-> "d", v |-> n]

Other(c) == [t |-> c, v |-> 0]

\* The string "[x1,y1][x2,y2]".
BoundsStr(x1, y1, x2, y2) ==
    <<LB, Num(x1), CM, Num(y1), RB, LB, Num(x2), CM, Num(y2), RB>>

\* ------------------------------------------------------------------------
\* Program constants
\* ------------------------------------------------------------------------

TextViewClass == <<"android", ".", "widget", ".", "TextView">>

AW(name) == <<"android", ".", "widget", ".", name>>

INTERACTIVE_CLASSES ==
    { AW("Button"), AW("ImageButton"), AW("EditText"), AW("CheckBox"),
      AW("RadioButton"), AW("Switch"), AW("ToggleButton"), AW("Spinner"),
      AW("SeekBar"), AW("RatingBar"), AW("TabHost"), AW("NumberPicker"),
      <<"android", ".", "support", ".", "v7", ".", "widget", ".", "RecyclerView">>,
      <<"androidx", ".", "recyclerview", ".", "widget", ".", "RecyclerView">>,
      AW("ListView"), AW("GridView"), AW("ScrollView"),
      AW("HorizontalScrollView"),
      <<"androidx", ".", "viewpager", ".", "widget", ".", "ViewPager">>,
      <<"androidx", ".", "viewpager2", ".", "widget", ".", "ViewPager2">> }

\* padding = 15 in annotated_screenshot.
Padding == 15

\* The 4 pixels between a label and its box, and around the label text.
LabelMargin == 4

\* ------------------------------------------------------------------------
\* Strings of characters and their lexical pieces
\* ------------------------------------------------------------------------

\* The decimal digits, the digit of value d at position d + 1.
Digits == <<"0", "1", "2", "3", "4", "5", "6", "7", "8", "9">>

IsDigit(c) == \E d \in 1..Len(Digits) : Digits[d] = c

DigitValue(c) == (CHOOSE d \in 1..Len(Digits) : Digits[d] = c) - 1

\* str(n) for n >= 0, as a sequence of characters.
RECURSIVE Decimal(_)
Decimal(n) ==
    IF n < 10 THEN <<Digits[n + 1]>>
    ELSE Append(Decimal(n \div 10), Digits[(n % 10) + 1])

\* BoundingBox.to_string, line 28: f'[{x1},{y1}][{x2},{y2}]'.
to_string(x1, y1, x2, y2) ==
    <<"[">> \o Decimal(x1) \o <<",">> \o Decimal(y1) \o <<"]">> \o
    <<"[">> \o Decimal(x2) \o <<",">> \o Decimal(y2) \o <<"]">>

\* int(s) on a run of digits, the most significant first; acc is the value
\* of the digits read so far.
RECURSIVE IntOf(_, _)
IntOf(run, acc) ==
    IF run = <<>> THEN acc
    ELSE IntOf(Tail(run), acc * 10 + DigitValue(Head(run)))

\* The length of the longest run of digits that chars starts with: what a
\* greedy \d+ takes.
RECURSIVE DigitRun(_)
DigitRun(chars) ==
    IF chars = <<>> \/ ~IsDigit(Head(chars)) THEN 0
    ELSE 1 + DigitRun(Tail(chars))

\* The piece a character other than a digit is to the pattern.
Piece(c) ==
    IF c = "[" THEN LB ELSE IF c = "]" THEN RB ELSE IF c = "," THEN CM
    ELSE Other(c)

\* The lexical pieces of a string: every maximal run of digits becomes one
\* piece with the value int() gives it (lines 80 and 82), every other
\* character a piece of its own.
RECURSIVE Lex(_)
Lex(chars) ==
    IF chars = <<>> THEN <<>>
    ELSE IF IsDigit(Head(chars))
         THEN <<Num(IntOf(SubSeq(chars, 1, DigitRun(chars)), 0))>>
              \o Lex(SubSeq(chars, DigitRun(chars) + 1, Len(chars)))
         ELSE <<Piece(Head(chars))>> \o Lex(Tail(chars))

\* ------------------------------------------------------------------------
\* extract_coordinates, get_center_coordinates
\* ------------------------------------------------------------------------

\* Does r'\[(\d+),(\d+)]\[(\d+),(\d+)]' match the pieces of s starting at p?
MatchesAt(s, p) ==
    /\ p + 9 <= Len(s)
    /\ s[p].t = "["     /\ s[p + 1].t = "d" /\ s[p + 2].t = ","
    /\ s[p + 3].t = "d" /\ s[p + 4].t = "]" /\ s[p + 5].t = "["
    /\ s[p + 6].t = "d" /\ s[p + 7].t = "," /\ s[p + 8].t = "d"
    /\ s[p + 9].t = "]"

\* re.search: the leftmost match, or None.
ReSearch(s) ==
    IF \E p \in 1..Len(s) : MatchesAt(s, p)
    THEN LET p == CHOOSE q \in 1..Len(s) :
                      MatchesAt(s, q) /\ \A r \in 1..(q - 1) : ~MatchesAt(s, r)
         IN  Some(<<s[p + 1].v, s[p + 3].v, s[p + 6].v, s[p + 8].v>>)
    ELSE None

\* extract_coordinates(node): re.search on None raises TypeError; otherwise
\* the four integers of the match, or None.
extract_coordinates(node) ==
    LET bounds == node.attrib["bounds"]
    IN  IF bounds = None
        THEN [raised |-> TRUE, val |-> None]
        ELSE [raised |-> FALSE, val |-> ReSearch(bounds[1])]

\* A center whose halves are rounded up.
CenterRoundedUp(c) ==
    <<(c[1] + c[3] + 1) \div 2, (c[2] + c[4] + 1) \div 2>>

get_center_coordinates(c) ==
    <<(c[1] + c[3]) \div 2, (c[2] + c[4]) \div 2>>

\* ------------------------------------------------------------------------
\* The element tree
\* ------------------------------------------------------------------------

\* The immediate children of node i, in document order (`for n in node`).
IsChild(tree, i, j) ==
    /\ j > i
    /\ tree[j].depth = tree[i].depth + 1
    /\ \A k \in (i + 1)..j : tree[k].depth > tree[i].depth

Children(tree, i) ==
    SelectSeq([j \in 1..Len(tree) |-> j], LAMBDA j : IsChild(tree, i, j))

\* ------------------------------------------------------------------------
\* get_element_name
\* ------------------------------------------------------------------------

RECURSIVE JoinStr(_)
JoinStr(parts) ==
    IF parts = <<>> THEN "" ELSE parts[1] \o JoinStr(Tail(parts))

\* str.split('.')[-1] on a class name: the pieces after its last dot.
LastSegment(cls) ==
    LET dots == { p \in 1..Len(cls) : cls[p] = "." }
        from == IF dots = {} THEN 1
                ELSE 1 + (CHOOSE p \in dots : \A q \in dots : q <= p)
    IN  JoinStr(SubSeq(cls, from, Len(cls)))

Unknown == <<"Unknown">>

\* The list comprehension of line 96: one entry per immediate child whose
\* class is android.widget.TextView, text or else content-desc.
LabelText(attrib) == PyOr(attrib["text"], attrib["content_desc"])

RECURSIVE LabelParts(_, _)
LabelParts(tree, kids) ==
    IF kids = <<>> THEN <<>>
    ELSE IF tree[Head(kids)].attrib["class"] = Some(TextViewClass)
         THEN <<LabelText(tree[Head(kids)].attrib)>> \o LabelParts(tree, Tail(kids))
         ELSE LabelParts(tree, Tail(kids))

\* "".join(list) raises TypeError when an item is None.
JoinRaises(parts) == \E k \in 1..Len(parts) : parts[k] = None

RECURSIVE JoinParts(_)
JoinParts(parts) ==
    IF parts = <<>> THEN "" ELSE parts[1][1] \o JoinParts(Tail(parts))

\* An `or` chain that prefers the node's text to its content description.
NameChainTextFirst(joined, attrib) ==
    PyOr(PyOr(joined, attrib["text"]), attrib["content_desc"])

\* The `or` chain of line 96, given the joined child labels.
NameChain(joined, attrib) ==
    PyOr(PyOr(joined, attrib["content_desc"]), attrib["text"])

\* The class-name fallback of line 97.
ClassFallback(attrib) ==
    LastSegment(IF attrib["class"] = None THEN Unknown ELSE attrib["class"][1])

get_element_name(tree, i) ==
    LET parts == LabelParts(tree, Children(tree, i))
        name  == NameChain(Some(JoinParts(parts)), tree[i].attrib)
    IN  IF JoinRaises(parts)
        THEN [raised |-> TRUE, val |-> ""]
        ELSE [raised |-> FALSE,
              val |-> IF Truthy(name) THEN name[1]
                      ELSE ClassFallback(tree[i].attrib)]

\* ------------------------------------------------------------------------
\* is_interactive
\* ------------------------------------------------------------------------

\* A classifier that forgets the registry of interactive classes.
IsInteractiveNoRegistry(node) ==
    \/ node.attrib["focusable"] = Some("true")
    \/ node.attrib["clickable"] = Some("true")

is_interactive(node) ==
    \/ node.attrib["focusable"] = Some("true")
    \/ node.attrib["clickable"] = Some("true")
    \/ /\ node.attrib["class"] # None
       /\ node.attrib["class"][1] \in INTERACTIVE_CLASSES

\* ------------------------------------------------------------------------
\* get_ui_elements
\* ------------------------------------------------------------------------

\* findall('.//node[@visible-to-user="true"][@enabled="true"]'): the indices
\* of the matching nodes, in document order.
FindAll(tree) ==
    SelectSeq([i \in 1..Len(tree) |-> i],
              LAMBDA i : /\ tree[i].attrib["visible_to_user"] = Some("true")
                         /\ tree[i].attrib["enabled"] = Some("true"))

\* node.get('class', '')
ClassName(attrib) == IF attrib["class"] = None THEN <<>> ELSE attrib["class"][1]

\* The ElementNode built at lines 148-155.
MakeElement(attrib, c, name) ==
    [name         |-> name,
     coordinates  |-> [x |-> get_center_coordinates(c)[1],
                       y |-> get_center_coordinates(c)[2]],
     bounding_box |-> [x1 |-> c[1], y1 |-> c[2], x2 |-> c[3], y2 |-> c[4]],
     class_name   |-> ClassName(attrib),
     clickable    |-> attrib["clickable"] = Some("true"),
     focusable    |-> attrib["focusable"] = Some("true")]

\* A list built by inserting at the front instead of appending.
PrependElement(elems, e) == <<e>> \o elems

\* interactive_elements.append(...)
AppendElement(elems, e) == Append(elems, e)

\* One iteration of the loop of lines 134-155 on node i. acc.elems is
\* interactive_elements, acc.src the document position of each of its
\* elements, acc.log what happened to each node visited so far, acc.exc the
\* exception that ended the loop ("none" while it runs).
VisitNode(tree, i, acc) ==
    LET node   == tree[i]
        coords == extract_coordinates(node)
        nm     == get_element_name(tree, i)
        entry(outcome, name) ==
            [src |-> i, interactive |-> is_interactive(node),
             outcome |-> outcome, name |-> name]
        skip(outcome, name) ==
            [acc EXCEPT !.log = Append(@, entry(outcome, name))]
        raise(outcome) ==
            [acc EXCEPT !.log = Append(@, entry(outcome, "")),
                        !.exc = "TypeError"]
    IN  IF ~is_interactive(node) THEN skip("not_interactive", "")
        ELSE IF coords.raised THEN raise("bounds_raised")
        ELSE IF coords.val = None THEN skip("no_coords", "")
        ELSE IF nm.raised THEN raise("name_raised")
        ELSE IF nm.val = "" THEN skip("no_name", nm.val)
        ELSE [acc EXCEPT
                !.elems = AppendElement(@, MakeElement(node.attrib, coords.val[1], nm.val)),
                !.src   = Append(@, i),
                !.log   = Append(@, entry("appended", nm.val))]

RECURSIVE ExtractLoop(_, _, _, _)
ExtractLoop(tree, nodes, k, acc) ==
    IF k > Len(nodes) \/ acc.exc # "none" THEN acc
    ELSE CHOOSE out \in { ExtractLoop(tree, nodes, k + 1, next) :
                            next \in {VisitNode(tree, nodes[k], acc)} } : TRUE

\* get_device_connection: any failure of u2.connect or device.info is
\* re-raised as ConnectionError.
get_device_connection(fault) ==
    IF fault = "connect" THEN "ConnectionError" ELSE "none"

\* The body of the try block of get_ui_elements, lines 125-157: the exception
\* it ends with, if any, and the list it would return. fault is what the
\* device does to this call: "none", "connect" (unreachable), "dump"
\* (dump_hierarchy fails) or "xml" (the dump is not well-formed XML).
ExtractBody(fault, tree) ==
    LET empty == [called |-> TRUE, elems |-> <<>>, src |-> <<>>, log |-> <<>>,
                  exc |-> "none"]
    IN  IF get_device_connection(fault) # "none"
        THEN [empty EXCEPT !.exc = get_device_connection(fault)]
        ELSE IF fault = "dump" THEN [empty EXCEPT !.exc = "DeviceError"]
        ELSE IF fault = "xml" THEN [empty EXCEPT !.exc = "ParseError"]
        ELSE ExtractLoop(tree, FindAll(tree), 1, empty)

\* `except Exception as e: raise RuntimeError(...)`, line 158-159.
WrapRuntimeError(exc) == IF exc = "none" THEN "none" ELSE "RuntimeError"

\* What the caller gets from a call that ended as r: the list if nothing
\* was raised, and otherwise the RuntimeError alone.
Propagate(r) ==
    [r EXCEPT !.exc = WrapRuntimeError(r.exc),
              !.elems = IF r.exc = "none" THEN r.elems ELSE <<>>,
              !.src = IF r.exc = "none" THEN r.src ELSE <<>>]

get_ui_elements(fault, tree) ==
    CHOOSE out \in { Propagate(r) : r \in {ExtractBody(fault, tree)} } : TRUE

\* enumerate(seq): 0-based positions.
Enumerate(seq) == [k \in 1..Len(seq) |-> [i |-> k - 1, v |-> seq[k]]]

\* The serialized records built by get_ui_elements_info (lines 596-614) and
\* by take_screenshot (lines 379-397).
ElementsInfo(elements) ==
    LET en == Enumerate(elements)
    IN  [k \in 1..Len(en) |->
            [index              |-> en[k].i,
             name               |-> en[k].v.name,
             center_coordinates |-> en[k].v.coordinates,
             bounding_box       |-> en[k].v.bounding_box,
             class_name         |-> en[k].v.class_name,
             clickable          |-> en[k].v.clickable,
             focusable          |-> en[k].v.focusable]]

\* ------------------------------------------------------------------------
\* annotated_screenshot: draw_annotation
\* ------------------------------------------------------------------------

\* int(v * scale) for v >= 0, the scale a ratio num/den.
IntScale(v, scale) == (v * scale.num) \div scale.den

\* take_screenshot calls annotated_screenshot(device_id, scale=1.0).
TakeScreenshotScale == [num |-> 1, den |-> 1]

\* Lines 207-212.
AdjustedBox(bb, scale) ==
    <<IntScale(bb.x1, scale) + Padding, IntScale(bb.y1, scale) + Padding,
      IntScale(bb.x2, scale) + Padding, IntScale(bb.y2, scale) + Padding>>

\* f"{label}: {node.name}"
LabelString(label, name) == ToString(label) \o ": " \o name

\* draw.textbbox((0, 0), text, font=font): width and height of the text in
\* the font that was loaded, a fixed advance per character.
TextBBox(font, text) == [w |-> font.cw * Len(text), h |-> font.h]

\* Lines 225-228: the label rectangle of an element.
LabelRect(left, top, label_width, label_height, width) ==
    [x1 |-> Max(left, 0),
     y1 |-> Max(top - label_height - LabelMargin, 0),
     x2 |-> Min(Max(left, 0) + label_width + LabelMargin, width - 1),
     y2 |-> Max(top - label_height - LabelMargin, 0) + label_height + LabelMargin]

\* draw_annotation(label, node), lines 202-232: what it draws.
draw_annotation(label, node, scale, width, font) ==
    LET box  == AdjustedBox(node.bounding_box, scale)
        text == LabelString(label, node.name)
        bbox == TextBBox(font, text)
        rect == LabelRect(box[1], box[2], bbox.w, bbox.h, width)
    IN  [label |-> label, text |-> text, box |-> box,
         label_width |-> bbox.w, label_height |-> bbox.h,
         x1 |-> rect.x1, y1 |-> rect.y1, x2 |-> rect.x2, y2 |-> rect.y2,
         text_x |-> rect.x1 + 2, text_y |-> rect.y1 + 2]

\* ImageDraw.rectangle on coordinates with x1 < x0 or y1 < y0 raises
\* ValueError in the Pillow releases that validate them and draws in the
\* others: both outcomes are possible, the repository pins no release.
Inverted(d) ==
    \/ d.box[3] < d.box[1] \/ d.box[4] < d.box[2]
    \/ d.x2 < d.x1 \/ d.y2 < d.y1

\* Whether the installed Pillow rejects inverted rectangles: a choice that
\* matters only when one is drawn.
Strictness(drawn) ==
    IF \E k \in 1..Len(drawn) : Inverted(drawn[k]) THEN BOOLEAN ELSE {FALSE}

\* The loop of lines 235-236.
DrawAll(nodes, scale, width, font) ==
    LET en == Enumerate(nodes)
    IN  [k \in 1..Len(en) |-> draw_annotation(en[k].i, en[k].v, scale, width, font)]

\* A draw_annotation that stores the adjusted box in the node it draws.
NodeAfterDrawAdjusted(node, scale) ==
    [node EXCEPT !.bounding_box =
        [x1 |-> AdjustedBox(node.bounding_box, scale)[1],
         y1 |-> AdjustedBox(node.bounding_box, scale)[2],
         x2 |-> AdjustedBox(node.bounding_box, scale)[3],
         y2 |-> AdjustedBox(node.bounding_box, scale)[4]]]

\* The ElementNode a call of draw_annotation leaves behind, lines 202-232:
\* the function reads node.bounding_box and node.name and assigns to its
\* locals only.
NodeAfterDraw(node, scale) == node

\* `return padded_screenshot, nodes`, line 238: the list get_ui_elements
\* returned, after the loop of lines 235-236 ran over it.
ReturnedNodes(nodes, scale) ==
    [k \in 1..Len(nodes) |-> NodeAfterDraw(nodes[k], scale)]

\* annotated_screenshot(device_id, scale), lines 175-238, once the
\* screenshot of the given size is decoded and get_ui_elements has
\* returned nodes: the canvas, the annotations and the returned list.
annotated_screenshot(scale, shotW, shotH, nodes, font) ==
    LET width  == IntScale(shotW, scale) + 2 * Padding
        height == IntScale(shotH, scale) + 2 * Padding
    IN  [done |-> TRUE, scale |-> scale, font |-> font.name,
         canvas |-> [width |-> width, height |-> height],
         extracted |-> nodes,
         drawn |-> DrawAll(nodes, scale, width, font),
         returned |-> ReturnedNodes(nodes, scale)]

\* ------------------------------------------------------------------------
\* take_screenshot: the grid overlay
\* ------------------------------------------------------------------------

\* grid_size = 200, line 426: the distance between two grid lines. It is a
\* local of take_screenshot, which has no parameter for it.
grid_size == 200

\* range(start, stop, step) for a positive step, as a sequence.
RECURSIVE Range(_, _, _)
Range(start, stop, step) ==
    IF start >= stop THEN <<>>
    ELSE <<start>> \o Range(start + step, stop, step)

\* A range that leaves out the far edge of the image.
GridStopsExclusive(size) == Range(0, size, grid_size)

\* range(0, width + 1, grid_size), lines 439, 444, 449 and 450.
GridStops(size) == Range(0, size + 1, grid_size)

\* Lines 439-441: draw.line([(x, 0), (x, height)]) for every x of the range
\* with x <= width.
VerticalLines(width, height) ==
    LET xs == GridStops(width)
    IN  SelectSeq([k \in 1..Len(xs) |->
                      [x0 |-> xs[k], y0 |-> 0, x1 |-> xs[k], y1 |-> height]],
                  LAMBDA l : l.x0 <= width)

\* Lines 444-446: draw.line([(0, y), (width, y)]) for every y of the range
\* with y <= height.
HorizontalLines(width, height) ==
    LET ys == GridStops(height)
    IN  SelectSeq([k \in 1..Len(ys) |->
                      [x0 |-> 0, y0 |-> ys[k], x1 |-> width, y1 |-> ys[k]]],
                  LAMBDA l : l.y0 <= height)

\* f"({x},{y})"
CoordText(x, y) == "(" \o ToString(x) \o "," \o ToString(y) \o ")"

\* Lines 452-464: the text drawn at the intersection (x, y) and the filled
\* rectangle behind it.
GridLabel(x, y, width, height, font) ==
    LET coord_text  == CoordText(x, y)
        bbox        == TextBBox(font, coord_text)
        text_x      == Min(x + 2, width - bbox.w - 2)
        text_y      == Min(y + 2, height - bbox.h - 2)
    IN  [x |-> x, y |-> y, text |-> coord_text,
         text_x |-> text_x, text_y |-> text_y,
         rect |-> <<text_x - 1, text_y - 1,
                    text_x + bbox.w + 1, text_y + bbox.h + 1>>]

\* Lines 449-451: the two nested loops, x outside and y inside, and their
\* test x <= width and y <= height.
GridLabels(width, height, font) ==
    LET xs == GridStops(width)
        ys == GridStops(height)
        at(k) == [x |-> xs[((k - 1) \div Len(ys)) + 1],
                  y |-> ys[((k - 1) % Len(ys)) + 1]]
    IN  IF ys = <<>> THEN <<>>
        ELSE [k \in 1..Len(SelectSeq([j \in 1..(Len(xs) * Len(ys)) |-> at(j)],
                                     LAMBDA q : q.x <= width /\ q.y <= height))
                |-> GridLabel(at(k).x, at(k).y, width, height, font)]

\* Lines 421-464: everything the grid overlay draws on a copy of an image
\* of the given size.
GridOverlay(width, height, font) ==
    [done |-> TRUE, width |-> width, height |-> height, font |-> font.name,
     vlines |-> VerticalLines(width, height),
     hlines |-> HorizontalLines(width, height),
     labels |-> GridLabels(width, height, font)]

\* ------------------------------------------------------------------------
\* Inputs: the hierarchies the device can dump, the fonts that can be loaded
\* ------------------------------------------------------------------------

\* Size of the device screen in pixels.
ScreenW == 100

ScreenH == 60

\* Most <node> elements of a dumped hierarchy.
MaxNodes == 3

Attrs(cls, bounds, text, desc, clickable, focusable, visible, enabled) ==
    [class |-> cls, bounds |-> bounds, text |-> text, content_desc |-> desc,
     clickable |-> Some(clickable), focusable |-> Some(focusable),
     visible_to_user |-> Some(visible), enabled |-> Some(enabled)]

\* The kinds of <node> a dumped hierarchy is made of.
NodeKinds ==
    {"button", "label", "clicklabel", "barelabel", "custom", "nobounds",
     "list", "hidden", "badbounds", "noclass"}

\* The attributes of each kind of node.
NodeAttrs(kind) ==
    CASE kind = "button" ->
           \* a button with text and description
           Attrs(Some(AW("Button")), Some(BoundsStr(0, 0, 40, 20)),
                 Some("OK"), Some("go"), "true", "true", "true", "true")
      [] kind = "label" ->
           \* a plain text label
           Attrs(Some(TextViewClass), Some(BoundsStr(0, 20, 40, 40)),
                 Some("Hi"), Some(""), "false", "false", "true", "true")
      [] kind = "clicklabel" ->
           \* a clickable text label with a description only, at the right edge
           Attrs(Some(TextViewClass),
                 Some(BoundsStr(ScreenW - 10, 0, ScreenW, 10)),
                 Some(""), Some("yo"), "true", "false", "true", "true")
      [] kind = "barelabel" ->
           \* a text label without text and content-desc attributes
           Attrs(Some(TextViewClass), Some(BoundsStr(0, 40, 40, 60)),
                 None, None, "false", "false", "true", "true")
      [] kind = "custom" ->
           \* a focusable custom widget without text, its box inverted and flat
           Attrs(Some(<<"com", ".", "example", ".", "widget", ".", "Button">>),
                 Some(BoundsStr(60, 40, 20, 40)),
                 Some(""), Some(""), "false", "true", "true", "true")
      [] kind = "nobounds" ->
           \* a clickable view without a bounds attribute
           Attrs(Some(<<"android", ".", "view", ".", "View">>), None,
                 Some("menu"), Some(""), "true", "false", "true", "true")
      [] kind = "list" ->
           \* a list: interactive by its class alone, text only, full screen
           Attrs(Some(AW("ListView")), Some(BoundsStr(0, 0, ScreenW, ScreenH)),
                 Some("list"), Some(""), "false", "false", "true", "true")
      [] kind = "hidden" ->
           \* a clickable view that is not visible
           Attrs(Some(<<"android", ".", "view", ".", "View">>),
                 Some(BoundsStr(0, 0, 10, 10)),
                 Some("hid"), Some(""), "true", "true", "false", "true")
      [] kind = "badbounds" ->
           \* a text field whose bounds "[-5,0][10,10]" do not match the pattern
           Attrs(Some(AW("EditText")),
                 Some(<<LB, Other("-"), Num(5), CM, Num(0), RB,
                        LB, Num(10), CM, Num(10), RB>>),
                 Some("in"), Some(""), "true", "true", "true", "true")
      [] OTHER ->
           \* "noclass": a focusable node with an empty class name and no text
           Attrs(Some(<<>>), Some(BoundsStr(10, 10, 30, 30)),
                 Some(""), Some(""), "false", "true", "true", "true")

\* The attributes of every kind of node, by kind.
Attributes == [kind \in NodeKinds |-> NodeAttrs(kind)]

\* The nesting depths of n nodes in document order: the first node is a
\* child of the root, each next one at most one level deeper than the last.
Shapes(n) ==
    { d \in [1..n -> 1..n] :
        /\ n >= 1 => d[1] = 1
        /\ \A k \in 2..n : d[k] <= d[k - 1] + 1 }

\* A dump of n nodes of kinds a[1..n] at depths d[1..n].
DumpOf(n, a, d) == [k \in 1..n |-> [kind |-> a[k], depth |-> d[k]]]

\* ElementTree.fromstring(tree_string): the element tree of a dump.
Parse(dump) ==
    [k \in 1..Len(dump) |->
        [attrib |-> Attributes[dump[k].kind], depth |-> dump[k].depth]]

\* What the device can do to one get_ui_elements call.
Faults == {"none", "connect", "dump", "xml"}

\* What `adb exec-out screencap -p` can do: exit non-zero ("fail"), exit 0
\* with bytes that are no decodable image ("corrupt": empty, truncated), or
\* exit 0 with a PNG ("png").
Captures == {"fail", "corrupt", "png"}

\* The fonts lines 191-197 can end up with: arial.ttf at size 12, or the
\* built-in default font. cw is the advance of a character, h the height
\* of a line of text.
Fonts == { [name |-> "arial", cw |-> 7, h |-> 11],
           [name |-> "default", cw |-> 6, h |-> 9] }

\* The fonts lines 431-436 can end up with: Arial at size 32, or the
\* built-in default font.
GridFonts == { [name |-> "arial32", cw |-> 18, h |-> 30],
               [name |-> "default", cw |-> 6, h |-> 9] }

\* The sides of the screenshots the grid is drawn on: the multiples of
\* SideStep up to MaxCells of them, and one pixel less and more of each.
SideStep == 40

MaxCells == 12

ImageSides ==
    { k * SideStep + o : k \in 0..MaxCells, o \in {-1, 0, 1} } \ (-1..0)

\* The scales annotated_screenshot is called with: 1.0 by take_screenshot,
\* and two more. Each is a ratio with a power of two below, which a float
\* holds exactly, so that the float product coordinate * scale is the
\* exact product.
Scales == { TakeScreenshotScale, [num |-> 1, den |-> 2], [num |-> 3, den |-> 4] }

\* The screenshots annotated_screenshot is called on by itself: squares of
\* side RenderSide, with at most MaxRenderNodes elements whose boxes have
\* their corners at 0, a quarter of the side and the side.
RenderSide == 100

MaxRenderNodes == 2

RenderCoords == {0, RenderSide \div 4, RenderSide}

RenderBoxes ==
    { <<x1, y1, x2, y2>> : x1 \in RenderCoords, y1 \in RenderCoords,
                           x2 \in RenderCoords, y2 \in RenderCoords }

\* The elements get_ui_elements returns for focusable nodes named "OK" with
\* the boxes b[1..n] that are not flat or inverted.
RenderNodes(n, b) ==
    [k \in 1..n |->
        MakeElement(Attrs(Some(AW("Button")), None, Some("OK"), Some(""),
                          "false", "true", "true", "true"),
                    b[k], "OK")]

\* The coordinates a bounds attribute is written with.
MaxCoord == 1080

CoordValues == {0, 9, 10, 20, 110, 220, MaxCoord}

\* ------------------------------------------------------------------------
\* State
\* ------------------------------------------------------------------------

VARIABLES
    pc,        \* where the running tool call is: "idle", "as_capture",
               \* "as_elements", "ts_capture", "done"
    annotate,  \* take_screenshot's annotate_elements
    fault,     \* what the device did to the get_ui_elements call
    dump,      \* the hierarchy the device dumped for get_ui_elements
    ext,       \* the get_ui_elements call of this tool call: whether it was
               \* made (called), the list it returned (elems), the document
               \* position of each element (src), what happened to each node
               \* it visited (log), the exception it raised (exc)
    annFail,   \* the step at which annotated_screenshot failed, or "none"
    labels,    \* what draw_annotation drew, one record per element
    canvas,    \* size of padded_screenshot
    shot,      \* outcome of the capture of line 413, or "none"
    composed,  \* an output image was fully composed in memory
    file,      \* the file at the output path since the call began
    result,    \* the dict the tool call returned
    ui,        \* the UI on the device screen, its states numbered from the
               \* start of the call: the one on screen now (screen), the
               \* one the screenshot shows (shot), the one the hierarchy
               \* dump describes (dump)
    grid,      \* what the grid overlay of take_screenshot drew on an image
    calc,      \* a call of extract_coordinates and get_center_coordinates
    render     \* a call of annotated_screenshot with a scale of its own

vars == <<pc, annotate, fault, dump, ext, annFail, labels, canvas, shot,
          composed, file, result, ui, grid, calc, render>>

\* The variables of the tool calls, and those of the function-level
\* specifications.
toolVars == <<pc, annotate, fault, dump, ext, annFail, labels, canvas, shot,
              composed, file, result, ui>>

funcVars == <<grid, calc, render>>

NoExt ==
    [called |-> FALSE, elems |-> <<>>, src |-> <<>>, log |-> <<>>, exc |-> "none"]

NoCanvas == [width |-> 0, height |-> 0]

Untouched == [kind |-> "untouched", complete |-> TRUE]

NoResult ==
    [tool |-> "none", success |-> FALSE, annotated |-> FALSE,
     error |-> "", elements |-> <<>>, count |-> 0]

SameUi == [screen |-> 0, shot |-> 0, dump |-> 0]

NoCall == [done |-> FALSE]

Init ==
    /\ pc = "idle"
    /\ annotate = FALSE
    /\ fault = "none"
    /\ dump = <<>>
    /\ ext = NoExt
    /\ annFail = "none"
    /\ labels = <<>>
    /\ canvas = NoCanvas
    /\ shot = "none"
    /\ composed = FALSE
    /\ file = Untouched
    /\ result = NoResult
    /\ ui = SameUi
    /\ grid = NoCall
    /\ calc = NoCall
    /\ render = NoCall

\* ------------------------------------------------------------------------
\* get_ui_elements_info
\* ------------------------------------------------------------------------

\* The except clauses of lines 624-637, tried in order: ConnectionError,
\* then Exception.
InfoError(exc) ==
    IF exc = "ConnectionError" THEN "Device connection failed"
    ELSE "Failed to get UI elements"

InfoResult(r) ==
    IF r.exc = "none"
    THEN [tool |-> "info", success |-> TRUE, annotated |-> FALSE, error |-> "",
          elements |-> ElementsInfo(r.elems), count |-> Len(r.elems)]
    ELSE [tool |-> "info", success |-> FALSE, annotated |-> FALSE,
          error |-> InfoError(r.exc), elements |-> <<>>, count |-> 0]

\* One call of get_ui_elements_info, on a device that fails the call (f) or
\* dumps the hierarchy t.
InfoCall(f, t) ==
    /\ fault' = f
    /\ dump' = t
    /\ \E r \in {get_ui_elements(f, Parse(t))} :
         /\ ext' = r
         /\ result' = InfoResult(r)
    /\ pc' = "done"
    /\ UNCHANGED <<annotate, annFail, labels, canvas, shot, composed, file, ui>>
    /\ UNCHANGED funcVars

GetUiElementsInfo ==
    /\ pc = "idle"
    /\ \/ \E f \in Faults \ {"none"} : InfoCall(f, <<>>)
       \/ \E n \in 0..MaxNodes : \E a \in [1..n -> NodeKinds], d \in Shapes(n) :
            InfoCall("none", DumpOf(n, a, d))

\* ------------------------------------------------------------------------
\* take_screenshot
\* ------------------------------------------------------------------------

\* Lines 344-370: the call begins; with annotate_elements it enters
\* annotated_screenshot, without it goes on to the capture of line 413.
TakeScreenshotBegin ==
    /\ pc = "idle"
    /\ \E a \in BOOLEAN :
         /\ annotate' = a
         /\ pc' = IF a THEN "as_capture" ELSE "ts_capture"
    /\ UNCHANGED <<fault, dump, ext, annFail, labels, canvas, shot, composed,
                   file, result, ui>>
    /\ UNCHANGED funcVars

\* A handler that lets the annotation error end the call.
OnAnnotationErrorAbort == "done"

\* `except Exception: pass` of lines 409-411: whatever annotated_screenshot
\* or the save raised, the call goes on to the capture of line 413.
OnAnnotationError == "ts_capture"

\* annotated_screenshot, lines 166-177: the capture and its decoding.
AnnotatedCapture ==
    /\ pc = "as_capture"
    /\ \E c \in Captures :
         IF c = "png"
         THEN /\ pc' = "as_elements"
              /\ ui' = [ui EXCEPT !.shot = ui.screen]
              /\ UNCHANGED annFail
         ELSE /\ annFail' = IF c = "fail" THEN "capture" ELSE "decode"
              /\ pc' = OnAnnotationError
              /\ UNCHANGED ui
    /\ UNCHANGED <<annotate, fault, dump, ext, labels, canvas, shot, composed,
                   file, result>>
    /\ UNCHANGED funcVars

\* The step of annotated_screenshot that failed, from what get_ui_elements
\* was given and how it ended.
FailedStep(f, r) ==
    IF r.exc = "none" THEN "none" ELSE IF f = "none" THEN "extract" ELSE f

\* The dict returned at lines 399-408.
AnnotatedResult(ui_elements) ==
    [tool |-> "shot", success |-> TRUE, annotated |-> TRUE, error |-> "",
     elements |-> ElementsInfo(ui_elements), count |-> Len(ui_elements)]

\* annotated_screenshot from line 180 on, then take_screenshot, lines
\* 376-408: get_ui_elements on a device that fails the call (f) or dumps the
\* hierarchy t, the canvas, the annotations in the font that was loaded, the
\* save and the returned dict. strict says whether the installed Pillow
\* rejects inverted rectangles. When a step raises, the exception leaves
\* annotated_screenshot and its locals are gone: the step alone is kept.
AnnotateCall(f, t) ==
    \E r \in {get_ui_elements(f, Parse(t))} :
      IF r.exc # "none"
      THEN /\ annFail' = FailedStep(f, r)
           /\ pc' = OnAnnotationError
           /\ UNCHANGED <<annotate, fault, dump, ext, labels, canvas, shot,
                          composed, file, result, ui>>
      ELSE \E font \in Fonts :
             \E width \in {IntScale(ScreenW, TakeScreenshotScale) + 2 * Padding} :
             \E drawn \in {DrawAll(r.elems, TakeScreenshotScale, width, font)} :
             \E strict \in Strictness(drawn) :
               IF strict
               THEN /\ annFail' = "draw"
                    /\ pc' = OnAnnotationError
                    /\ UNCHANGED <<annotate, fault, dump, ext, labels, canvas,
                                   shot, composed, file, result, ui>>
               ELSE /\ fault' = f
                    /\ dump' = t
                    /\ ext' = r
                    /\ ui' = [ui EXCEPT !.dump = ui.screen]
                    /\ canvas' = [width |-> width,
                                  height |-> IntScale(ScreenH, TakeScreenshotScale)
                                             + 2 * Padding]
                    /\ labels' = drawn
                    /\ composed' = TRUE
                    /\ file' = [kind |-> "annotated", complete |-> TRUE]
                    /\ result' = AnnotatedResult(
                                    ReturnedNodes(r.elems, TakeScreenshotScale))
                    /\ pc' = "done"
                    /\ UNCHANGED <<annotate, annFail, shot>>

AnnotatedElements ==
    /\ pc = "as_elements"
    /\ UNCHANGED funcVars
    /\ \/ \E f \in Faults \ {"none"} : AnnotateCall(f, <<>>)
       \/ \E n \in 0..MaxNodes : \E a \in [1..n -> NodeKinds], d \in Shapes(n) :
            AnnotateCall("none", DumpOf(n, a, d))

\* Lines 413-499 for each outcome c of the capture: whether the comparison
\* image was composed, the file written and the returned dict. A capture
\* that exits non-zero raises CalledProcessError (lines 501-506). When the
\* composition of lines 416-486 raises (Image.open on bytes that do not
\* decode; with a PNG, composeOk = FALSE: no memory for the canvas of twice
\* the width), the handler of lines 488-491 writes the captured bytes to the
\* output path as they are.
RegularOutcome(c, composeOk) ==
    IF c = "fail"
    THEN [composed |-> FALSE, written |-> FALSE, file |-> Untouched,
          result |-> [tool |-> "shot", success |-> FALSE, annotated |-> FALSE,
                      error |-> "Failed to take screenshot",
                      elements |-> <<>>, count |-> 0]]
    ELSE [composed |-> c = "png" /\ composeOk, written |-> TRUE,
          file |-> IF c = "png" /\ composeOk
                   THEN [kind |-> "merged", complete |-> TRUE]
                   ELSE [kind |-> "raw", complete |-> c = "png"],
          result |-> [tool |-> "shot", success |-> TRUE, annotated |-> FALSE,
                      error |-> "", elements |-> <<>>, count |-> 0]]

\* take_screenshot from line 413 on: the plain capture, the comparison
\* image, the save.
RegularScreenshot ==
    /\ pc = "ts_capture"
    /\ \E c \in Captures, composeOk \in BOOLEAN :
         \E o \in {RegularOutcome(c, composeOk)} :
           /\ shot' = c
           /\ composed' = o.composed
           /\ file' = IF o.written THEN o.file ELSE file
           /\ result' = o.result
    /\ pc' = "done"
    /\ UNCHANGED <<annotate, fault, dump, ext, annFail, labels, canvas, ui>>
    /\ UNCHANGED funcVars

\* The tool call has returned; the server waits for the next one.
Return ==
    /\ pc = "done"
    /\ pc' = "idle"
    /\ annotate' = FALSE
    /\ fault' = "none"
    /\ dump' = <<>>
    /\ ext' = NoExt
    /\ annFail' = "none"
    /\ labels' = <<>>
    /\ canvas' = NoCanvas
    /\ shot' = "none"
    /\ composed' = FALSE
    /\ file' = Untouched
    /\ result' = NoResult
    /\ ui' = SameUi
    /\ UNCHANGED funcVars

Next ==
    \/ GetUiElementsInfo
    \/ TakeScreenshotBegin
    \/ AnnotatedCapture
    \/ AnnotatedElements
    \/ RegularScreenshot
    \/ Return

\* The device's UI stays as it is while a tool call runs.
Spec == Init /\ [][Next]_vars

\* ------------------------------------------------------------------------
\* A device whose UI changes while a call runs
\* ------------------------------------------------------------------------

\* How many times the UI on the screen changes during one call, at most.
MaxUiChanges == 1

\* The app in the foreground changes what is on the screen while a tool
\* call is running: the device is not stopped between the screencap of
\* line 171 and the dump_hierarchy of line 128.
DeviceUiChange ==
    /\ pc \notin {"idle", "done"}
    /\ ui.screen < MaxUiChanges
    /\ ui' = [ui EXCEPT !.screen = @ + 1]
    /\ UNCHANGED <<pc, annotate, fault, dump, ext, annFail, labels, canvas,
                   shot, composed, file, result>>
    /\ UNCHANGED funcVars

RaceNext ==
    \/ GetUiElementsInfo
    \/ TakeScreenshotBegin
    \/ AnnotatedCapture
    \/ AnnotatedElements
    \/ RegularScreenshot
    \/ Return
    \/ DeviceUiChange

RaceSpec == Init /\ [][RaceNext]_vars

\* ------------------------------------------------------------------------
\* The grid overlay on its own
\* ------------------------------------------------------------------------

\* take_screenshot, lines 418-464, on a screenshot of any of the sizes and
\* with either font.
RenderGrid ==
    /\ ~grid.done
    /\ \E width \in ImageSides, height \in ImageSides, font \in GridFonts :
         grid' = GridOverlay(width, height, font)
    /\ UNCHANGED toolVars
    /\ UNCHANGED <<calc, render>>

GridSpec == Init /\ [][RenderGrid]_vars

\* ------------------------------------------------------------------------
\* Box and center of one node on their own
\* ------------------------------------------------------------------------

\* Lines 136-155 of get_ui_elements on one focusable node whose bounds
\* attribute is the string written from the given fields: the coordinates
\* extract_coordinates returns, the center, and the ElementNode built from
\* them.
BoxAndCenter(fields) ==
    LET chars  == to_string(fields[1], fields[2], fields[3], fields[4])
        attrib == Attrs(Some(AW("Button")), Some(Lex(chars)),
                        Some("OK"), Some(""), "false", "true", "true", "true")
        coords == extract_coordinates([attrib |-> attrib, depth |-> 1])
    IN  [done |-> TRUE, fields |-> fields, bounds |-> chars,
         coords |-> coords.val,
         center |-> IF coords.val = None THEN None
                    ELSE Some(get_center_coordinates(coords.val[1])),
         element |-> IF coords.val = None THEN None
                     ELSE Some(MakeElement(attrib, coords.val[1], "OK"))]

\* A node whose bounds attribute is "[x1,y1][x2,y2]" for any four of the
\* coordinates.
ExtractBox ==
    /\ ~calc.done
    /\ \E x1 \in CoordValues, y1 \in CoordValues,
          x2 \in CoordValues, y2 \in CoordValues :
         calc' = BoxAndCenter(<<x1, y1, x2, y2>>)
    /\ UNCHANGED toolVars
    /\ UNCHANGED <<grid, render>>

BoxSpec == Init /\ [][ExtractBox]_vars

\* ------------------------------------------------------------------------
\* annotated_screenshot on its own
\* ------------------------------------------------------------------------

\* A call of annotated_screenshot with any of the scales, on a screenshot
\* that decodes and a device whose elements have any of the boxes.
AnnotatedScreenshot ==
    /\ ~render.done
    /\ \E scale \in Scales, font \in Fonts, n \in 0..MaxRenderNodes :
         \E b \in [1..n -> { q \in RenderBoxes : q[1] < q[3] /\ q[2] < q[4] }] :
           render' = annotated_screenshot(scale, RenderSide, RenderSide,
                                          RenderNodes(n, b), font)
    /\ UNCHANGED toolVars
    /\ UNCHANGED <<grid, calc>>

RenderSpec == Init /\ [][AnnotatedScreenshot]_vars

\* ------------------------------------------------------------------------
\* Vocabulary of the properties, stated on the dumped document itself
\* ------------------------------------------------------------------------

\* The attributes of the i-th node of the dumped document.
Attr(i) == Attributes[dump[i].kind]

\* A missing attribute read as the empty string.
OptStr(o) == IF o = None THEN "" ELSE o[1]

IsTrue(o) == o # None /\ o[1] = "true"

\* Visible to the user and enabled.
Shown(i) == IsTrue(Attr(i).visible_to_user) /\ IsTrue(Attr(i).enabled)

\* Focusable, clickable, or of a class of the interactive registry.
Interactive(i) ==
    \E a \in {Attr(i)} :
        \/ IsTrue(a.focusable)
        \/ IsTrue(a.clickable)
        \/ a.class # None /\ a.class[1] \in INTERACTIVE_CLASSES

\* The bounds attribute is present and holds "[x1,y1][x2,y2]".
BoundsMatch(i) ==
    /\ Attr(i).bounds # None
    /\ \E p \in 1..Len(Attr(i).bounds[1]) : MatchesAt(Attr(i).bounds[1], p)

\* The immediate children of node i that are plain text labels.
LabelChildren(i) ==
    SelectSeq(Children(Parse(dump), i),
              LAMBDA j : Attr(j).class = <<TextViewClass>>)

\* A text-label child has neither text nor description to contribute.
SilentChild(j) ==
    OptStr(Attr(j).text) = "" /\ Attr(j).content_desc = None

RECURSIVE Concat(_)
Concat(strs) == IF strs = <<>> THEN "" ELSE Head(strs) \o Concat(Tail(strs))

\* Text, or else description, of a child; missing read as empty.
ChildLabel(j) ==
    IF OptStr(Attr(j).text) # "" THEN OptStr(Attr(j).text)
    ELSE OptStr(Attr(j).content_desc)

ChildConcat(i) ==
    LET kids == LabelChildren(i)
    IN  Concat([k \in 1..Len(kids) |-> ChildLabel(kids[k])])

\* The first non-empty string of a sequence, "" if there is none.
FirstNonEmpty(strs) ==
    IF \A k \in 1..Len(strs) : strs[k] = "" THEN ""
    ELSE strs[CHOOSE k \in 1..Len(strs) :
                strs[k] # "" /\ \A j \in 1..(k - 1) : strs[j] = ""]

\* seg is the last dot-separated segment of the class name cls.
IsLastSegment(cls, seg) ==
    \E p \in 1..(Len(cls) + 1) :
        /\ \A q \in p..Len(cls) : cls[q] # "."
        /\ p = 1 \/ cls[p - 1] = "."
        /\ seg = Concat(SubSeq(cls, p, Len(cls)))

\* name is what the priority rule of name resolution gives for node i.
NameByPriority(i, name) ==
    LET first == FirstNonEmpty(<<ChildConcat(i), OptStr(Attr(i).content_desc),
                                 OptStr(Attr(i).text)>>)
    IN  IF first # "" THEN name = first
        ELSE IsLastSegment(Attr(i).class[1], name)

\* The log entries of the nodes for which a name was resolved.
Named == { k \in 1..Len(ext.log) : ext.log[k].outcome \in {"appended", "no_name"} }

\* ------------------------------------------------------------------------
\* C1: bad bounds on one node
\* ------------------------------------------------------------------------

\* The shown interactive nodes whose bounds are missing or do not match.
BadBoundsNodes ==
    { i \in 1..Len(dump) : Shown(i) /\ Interactive(i) /\ ~BoundsMatch(i) }

\* The nodes that qualify for the output.
Qualifying ==
    { i \in 1..Len(dump) :
        /\ Shown(i) /\ Interactive(i) /\ BoundsMatch(i)
        /\ ~NameByPriority(i, "") }

\* No label child in the document is silent (see C6).
NoSilentChild ==
    \A i \in 1..Len(dump) :
        \A k \in 1..Len(LabelChildren(i)) : ~SilentChild(LabelChildren(i)[k])

\* C1: when get_ui_elements processes a well-formed snapshot in which one
\* interactive node has a missing or non-matching bounds attribute, the
\* extraction does not fail, that node alone is skipped and every other
\* qualifying node is in the output.
C1_BadBoundsNodeSkipped ==
    (ext.called /\ fault = "none" /\ NoSilentChild
        /\ Cardinality(BadBoundsNodes) = 1)
    => /\ ext.exc = "none"
       /\ { ext.src[k] : k \in 1..Len(ext.src) } = Qualifying

\* ------------------------------------------------------------------------
\* C2: well-formed boxes
\* ------------------------------------------------------------------------

\* C2: every ElementNode that get_ui_elements returns has x1 < x2 and
\* y1 < y2.
C2_BoxesWellFormed ==
    \A k \in 1..Len(ext.elems) :
        /\ ext.elems[k].bounding_box.x1 < ext.elems[k].bounding_box.x2
        /\ ext.elems[k].bounding_box.y1 < ext.elems[k].bounding_box.y2

\* ------------------------------------------------------------------------
\* C3: order and indices
\* ------------------------------------------------------------------------

\* C3: the output list keeps the document order of the nodes that pass the
\* filters (each element is built from the node at its recorded position,
\* the positions increase, and they are exactly the nodes the loop accepted);
\* the index of the serialized record of an element and the number in its
\* on-image label are both its 0-based position in the list.
C3_IndexIsPosition ==
    /\ Len(ext.src) = Len(ext.elems)
    /\ \A k \in 1..Len(ext.src) :
         /\ k > 1 => ext.src[k - 1] < ext.src[k]
         /\ Shown(ext.src[k])
         /\ <<ext.elems[k].class_name>> = Attr(ext.src[k]).class
         /\ Attr(ext.src[k]).bounds =
              <<BoundsStr(ext.elems[k].bounding_box.x1, ext.elems[k].bounding_box.y1,
                          ext.elems[k].bounding_box.x2, ext.elems[k].bounding_box.y2)>>
    /\ ext.exc = "none" =>
         { ext.src[k] : k \in 1..Len(ext.src) } =
         { ext.log[k].src : k \in { j \in 1..Len(ext.log) :
                                      ext.log[j].outcome = "appended" } }
    /\ result.success /\ result.tool = "info" =>
         Len(result.elements) = Len(ext.elems)
    /\ result.annotated =>
         /\ Len(result.elements) = Len(ext.elems)
         /\ Len(labels) = Len(ext.elems)
    /\ \A k \in 1..Len(result.elements) :
         /\ result.elements[k].index = k - 1
         /\ result.elements[k].name = ext.elems[k].name
         /\ result.elements[k].bounding_box = ext.elems[k].bounding_box
    /\ \A k \in 1..Len(labels) :
         /\ labels[k].label = k - 1
         /\ labels[k].text = ToString(k - 1) \o ": " \o ext.elems[k].name
         /\ labels[k].label = result.elements[k].index

\* A call annotated three elements of different kinds.
C3_Witness ==
    /\ pc = "done"
    /\ result.annotated
    /\ Len(labels) = 3
    /\ dump[1].kind # dump[2].kind
    /\ dump[2].kind # dump[3].kind

\* ------------------------------------------------------------------------
\* C4: interactivity
\* ------------------------------------------------------------------------

\* C4: is_interactive(node) is true if and only if the node is focusable,
\* clickable or of a registry class; a node that is none of these never
\* appears in the output, whatever text or description it has.
C4_InteractiveIff ==
    /\ \A k \in 1..Len(ext.log) :
         /\ ext.log[k].interactive = Interactive(ext.log[k].src)
         /\ ext.log[k].outcome = "appended" => Interactive(ext.log[k].src)
         /\ ext.log[k].outcome = "not_interactive" <=> ~Interactive(ext.log[k].src)
    /\ \A k \in 1..Len(ext.src) : Interactive(ext.src[k])

\* An extraction kept a node that is interactive by its class alone and left
\* out a shown node with text that is not interactive.
C4_Witness ==
    /\ ext.called /\ ext.exc = "none"
    /\ \E k \in 1..Len(ext.src) :
         /\ ~IsTrue(Attr(ext.src[k]).focusable)
         /\ ~IsTrue(Attr(ext.src[k]).clickable)
    /\ \E i \in 1..Len(dump) :
         /\ Shown(i) /\ ~Interactive(i) /\ OptStr(Attr(i).text) # ""
         /\ \A k \in 1..Len(ext.src) : ext.src[k] # i

\* ------------------------------------------------------------------------
\* C5, C6: name resolution
\* ------------------------------------------------------------------------

C5_WitnessOwn ==
    /\ ext.called /\ ext.exc = "none"
    /\ \E k \in 1..Len(ext.elems) :
         /\ LabelChildren(ext.src[k]) = <<>>
         /\ OptStr(Attr(ext.src[k]).text) # ""
         /\ ext.elems[k].name = OptStr(Attr(ext.src[k]).content_desc)
    /\ \E k \in 1..Len(ext.elems) :
         /\ OptStr(Attr(ext.src[k]).content_desc) = ""
         /\ ext.elems[k].name = OptStr(Attr(ext.src[k]).text)
    /\ \E k \in 1..Len(ext.elems) : ext.elems[k].name = "Button"

\* C6: whenever a name is resolved for a node, resolve_name returns without
\* raising and its result is a non-empty string.
C6_NameNeverRaisesNorEmpty ==
    \A k \in 1..Len(ext.log) :
        ext.log[k].outcome \notin {"name_raised", "no_name"}

\* ------------------------------------------------------------------------
\* C7: connection errors
\* ------------------------------------------------------------------------

\* C7: when the device is unreachable, the ConnectionError of the connection
\* acquisition reaches the caller of get_ui_elements as a ConnectionError,
\* and get_ui_elements_info reports a device-connection failure.
C7_ConnectionErrorUnchanged ==
    (ext.called /\ fault = "connect")
    => /\ ext.exc = "ConnectionError"
       /\ result.tool = "info" => result.error = "Device connection failed"

\* ------------------------------------------------------------------------
\* C8, C9: take_screenshot
\* ------------------------------------------------------------------------

\* C8: when take_screenshot is called with annotate_elements and the
\* annotation fails at any step while the capture of the plain screenshot
\* works, the call does not fail: it saves the unannotated output and
\* returns success; and an annotation that failed never ends the call
\* before the plain capture was tried.
C8_AnnotationFallback ==
    /\ (pc = "done" /\ annotate /\ annFail # "none") => shot # "none"
    /\ (pc = "done" /\ annotate /\ annFail # "none" /\ shot # "fail")
       => /\ result.success
          /\ ~result.annotated
          /\ file.kind \in {"merged", "raw"}
          /\ shot = "png" /\ composed => file = [kind |-> "merged", complete |-> TRUE]

\* The drawing failed, the plain capture worked and the call returned the
\* comparison image.
C8_Witness ==
    /\ pc = "done" /\ annotate
    /\ annFail = "draw"
    /\ shot = "png"
    /\ result.success /\ file.kind = "merged"

\* C9: after any call the file at the output path is untouched or a
\* complete image, never a partial one.
C9_FileCompleteOrUntouched ==
    file.kind # "untouched" => file.complete

\* ------------------------------------------------------------------------
\* C10: label placement
\* ------------------------------------------------------------------------

\* C10: every label drawn lies within the canvas: its left x is in
\* [0, max(canvas_width - 1 - label_width, 0)], its top y is
\* max(box_top - label_height - margin, 0), and none of its coordinates is
\* negative or past a canvas edge.
C10_LabelWithinCanvas ==
    \A k \in 1..Len(labels) :
        /\ 0 <= labels[k].x1
        /\ labels[k].x1 <= Max(canvas.width - 1 - labels[k].label_width, 0)
        /\ labels[k].y1 = Max(labels[k].box[2] - labels[k].label_height - LabelMargin, 0)
        /\ labels[k].x1 <= labels[k].x2 /\ labels[k].x2 <= canvas.width - 1
        /\ labels[k].y1 <= labels[k].y2 /\ labels[k].y2 <= canvas.height - 1

\* ------------------------------------------------------------------------
\* C11: the grid
\* ------------------------------------------------------------------------

\* The multiples of step in [0, size].
Multiples(step, size) == { v \in 0..size : v % step = 0 }

\* The x of the vertical lines and the y of the horizontal lines drawn.
LineXs == { grid.vlines[k].x0 : k \in 1..Len(grid.vlines) }

LineYs == { grid.hlines[k].y0 : k \in 1..Len(grid.hlines) }

\* Exactly one label is drawn at each point of xs \X ys, and its text is
\* the literal coordinate "(x,y)".
LabelsAt(xs, ys) ==
    /\ Len(grid.labels) = Cardinality(xs) * Cardinality(ys)
    /\ \A x \in xs, y \in ys :
         \E k \in 1..Len(grid.labels) :
           /\ grid.labels[k].x = x /\ grid.labels[k].y = y
           /\ grid.labels[k].text = "(" \o ToString(x) \o "," \o ToString(y) \o ")"

\* One full-length line per element of xs and of ys.
LinesAt(xs, ys) ==
    /\ LineXs = xs /\ Len(grid.vlines) = Cardinality(xs)
    /\ LineYs = ys /\ Len(grid.hlines) = Cardinality(ys)
    /\ \A k \in 1..Len(grid.vlines) :
         /\ grid.vlines[k].x1 = grid.vlines[k].x0
         /\ grid.vlines[k].y0 = 0 /\ grid.vlines[k].y1 = grid.height
    /\ \A k \in 1..Len(grid.hlines) :
         /\ grid.hlines[k].y1 = grid.hlines[k].y0
         /\ grid.hlines[k].x0 = 0 /\ grid.hlines[k].x1 = grid.width

Written(x1, y1, x2, y2) ==
    calc.bounds = <<"[">> \o Decimal(x1) \o <<",">> \o Decimal(y1) \o <<"]">>
                  \o <<"[">> \o Decimal(x2) \o <<",">> \o Decimal(y2) \o <<"]">>

\* m is floor(s / 2).
IsHalfFloor(m, s) == 2 * m <= s /\ s < 2 * m + 2

\* C12: for a bounds string [x1,y1][x2,y2] with non-negative integer
\* fields, the box extracted is exactly (x1, y1, x2, y2) and the center is
\* (floor((x1+x2)/2), floor((y1+y2)/2)), and these are the box and center
\* of the element built; for [10,20][110,220] the box is (10,20,110,220)
\* and the center (60,120).
C12_BoxAndCenter ==
    /\ calc.done =>
         LET x1 == calc.fields[1]
             y1 == calc.fields[2]
             x2 == calc.fields[3]
             y2 == calc.fields[4]
         IN  Written(x1, y1, x2, y2)
             => /\ calc.coords = <<(<<x1, y1, x2, y2>>)>>
                /\ calc.center # <<>>
                /\ IsHalfFloor(calc.center[1][1], x1 + x2)
                /\ IsHalfFloor(calc.center[1][2], y1 + y2)
                /\ calc.element # <<>>
                /\ calc.element[1].bounding_box =
                     [x1 |-> x1, y1 |-> y1, x2 |-> x2, y2 |-> y2]
                /\ calc.element[1].coordinates =
                     [x |-> calc.center[1][1], y |-> calc.center[1][2]]
    /\ (calc.done /\ calc.bounds = <<"[", "1", "0", ",", "2", "0", "]",
                                     "[", "1", "1", "0", ",", "2", "2", "0", "]">>)
       => /\ calc.coords = <<(<<10, 20, 110, 220>>)>>
          /\ calc.center = <<(<<60, 120>>)>>

\* The box and center of [10,20][110,220] were computed.
C12_Witness ==
    /\ calc.done
    /\ calc.bounds = <<"[", "1", "0", ",", "2", "0", "]",
                       "[", "1", "1", "0", ",", "2", "2", "0", "]">>
    /\ calc.center = <<(<<60, 120>>)>>

\* The center of a box whose sides add up to odd numbers was computed.
C12_WitnessOdd ==
    /\ calc.done /\ calc.coords # <<>>
    /\ (calc.coords[1][1] + calc.coords[1][3]) % 2 = 1
    /\ (calc.coords[1][2] + calc.coords[1][4]) % 2 = 1

\* ------------------------------------------------------------------------
\* C13: scaling and padding of the boxes drawn
\* ------------------------------------------------------------------------

\* m is floor(v * scale).
IsScaledFloor(m, v, scale) ==
    m * scale.den <= v * scale.num /\ v * scale.num < (m + 1) * scale.den

\* The box <<a1, b1, a2, b2>> is the box bb scaled, floored and padded.
IsScaledAndPadded(box, bb, scale) ==
    /\ IsScaledFloor(box[1] - Padding, bb.x1, scale)
    /\ IsScaledFloor(box[2] - Padding, bb.y1, scale)
    /\ IsScaledFloor(box[3] - Padding, bb.x2, scale)
    /\ IsScaledFloor(box[4] - Padding, bb.y2, scale)

\* C13: the box drawn for an element has every coordinate equal to
\* floor(coordinate * scale) + padding (box (0,0,100,100) at scale 0.5 with
\* padding 15 gives (15,15,65,65)), and the elements returned with the
\* annotated image have the unscaled bounding box and center extraction
\* produced.
C13_ScaledBoxesNodesUnchanged ==
    render.done =>
      /\ Len(render.drawn) = Len(render.extracted)
      /\ Len(render.returned) = Len(render.extracted)
      /\ \A k \in 1..Len(render.extracted) :
           /\ IsScaledAndPadded(render.drawn[k].box,
                                render.extracted[k].bounding_box, render.scale)
           /\ (/\ render.scale = [num |-> 1, den |-> 2]
               /\ render.extracted[k].bounding_box =
                    [x1 |-> 0, y1 |-> 0, x2 |-> 100, y2 |-> 100])
              => render.drawn[k].box = <<15, 15, 65, 65>>
           /\ render.returned[k].bounding_box = render.extracted[k].bounding_box
           /\ render.returned[k].coordinates = render.extracted[k].coordinates
           /\ IsHalfFloor(render.returned[k].coordinates.x,
                          render.returned[k].bounding_box.x1
                          + render.returned[k].bounding_box.x2)
           /\ IsHalfFloor(render.returned[k].coordinates.y,
                          render.returned[k].bounding_box.y1
                          + render.returned[k].bounding_box.y2)

\* Two elements were drawn at a scale below 1, one with the box
\* (0,0,100,100), one with a coordinate the scale does not divide, and both
\* were returned.
C13_Witness ==
    /\ render.done /\ render.scale = [num |-> 1, den |-> 2]
    /\ Len(render.returned) = 2
    /\ render.extracted[1].bounding_box = [x1 |-> 0, y1 |-> 0, x2 |-> 100, y2 |-> 100]
    /\ render.drawn[1].box = <<15, 15, 65, 65>>
    /\ render.extracted[2].bounding_box.x1 = 25
    /\ render.drawn[2].box[1] = 27

\* ------------------------------------------------------------------------
\* C14: screenshot and elements of one UI state
\* ------------------------------------------------------------------------

\* C14: within one annotated_screenshot call the screenshot and the element
\* list describe the same UI state: the boxes and labels drawn on the
\* screenshot and the elements returned with it are never those of a UI
\* state newer than the one the screenshot shows.
C14_ScreenshotAndElementsOfOneUi ==
    (result.annotated /\ Len(labels) > 0) => ui.dump = ui.shot

====
